---------------------------- MODULE Spec2Model ----------------------------
(***************************************************************************)
(* Administrative command line of pritunl (src/pritunl/__main__.py).       *)
(*                                                                         *)
(* Each cluster node runs one command process at a time.  A command is a   *)
(* sequence of steps; every step holds at most one database operation, so  *)
(* steps of commands running on different nodes interleave at exactly the  *)
(* points where the real processes can interleave.                         *)
(*                                                                         *)
(* The modules main() imports (settings, event, messenger, mongo, setup)   *)
(* are not part of the reviewed source; their behaviour is taken from the  *)
(* written specification (sections 3, 4 and 5).                            *)
(***************************************************************************)
EXTENDS Integers, Sequences, FiniteSets, TLC

\* ------------------------------------------------------------------ bounds
MaxCmds == 3      \* commands started in one behaviour (all nodes together)
MaxClock == 2     \* seconds the wall clock advances in one behaviour
MaxAppends == 3   \* documents appended to capped collections by the servers

\* --------------------------------------------------------- program constants
EightHours == 28800        \* "for 8 hours", in seconds
MsgSize == 5000192         \* create_collection(..., size=5000192, ...)
MsgMax == 1000             \* create_collection(..., max=1000)
LogDocBytes == 1024        \* size=log_limit * 1024
LogEntryDocBytes == 512    \* size=log_entry_limit * 512

Node == {1, 2}

\* ------------------------------------------------------------------- values
\* JSON values as json.loads produces them: a tagged union.
IntV(n) == [t |-> "int", n |-> n]
StrV(s) == [t |-> "str", s |-> s]
NullV == [t |-> "null"]

TypeOf(v) == v.t

\* json.loads(val_str) succeeds on these command line texts ...
ValidJson(raw) == raw \in {"1", "2", "null", "\"a\""}

\* ... and yields:
JsonLoads(raw) ==
    CASE raw = "1" -> IntV(1)
      [] raw = "2" -> IntV(2)
      [] raw = "null" -> NullV
      [] raw = "\"a\"" -> StrV("a")

\* try: json.loads(val_str)
\* except ValueError: json.loads(json.JSONEncoder().encode(val_str))
\* (the fallback encodes the text as a JSON string and decodes it again: the
\* text itself, as a string value)
ParseValue(raw) == IF ValidJson(raw) THEN JsonLoads(raw) ELSE StrV(raw)

\* json.dumps(val, default=...): number, quoted string or the literal null
JsonDumps(v) ==
    CASE v.t = "int" -> [json |-> "number", n |-> v.n]
      [] v.t = "str" -> [json |-> "string", s |-> v.s]
      [] v.t = "null" -> [json |-> "null"]

\* ---------------------------------------------------------------- addresses
\* An address is the command line argument args[1], kept as its run of name
\* tokens and "." characters (no two names are adjacent).
RECURSIVE SplitAcc(_, _, _)
SplitAcc(a, cur, acc) ==
    IF a = <<>> THEN Append(acc, cur)
    ELSE IF Head(a) = "." THEN SplitAcc(Tail(a), "", Append(acc, cur))
    ELSE SplitAcc(Tail(a), Head(a), acc)

\* args[1].split('.')
Split(a) == SplitAcc(a, "", <<>>)


\* ------------------------------------------------------------- config store
\* Groups reachable as attributes of the settings object.  ("conf" and
\* "local" live in files and memory, not in the database, and are left out.)
SettingsGroups == {"app", "user"}

\* The group main() reaches as settings.local.host, one document per host id.
HostGroup == "host"

GroupFields(g) ==
    CASE g = "app" -> {"log_limit", "log_entry_limit"}
      [] g = "user" -> {"device_key_override"}
      [] g = HostGroup -> {"mongodb_uri"}
      [] OTHER -> {}

Default(g, f) ==
    CASE g = "app" -> IntV(2)
      [] g = "user" -> NullV
      [] OTHER -> StrV("d")

DefaultDoc(g) == [f \in GroupFields(g) |-> Default(g, f)]

\* A process that has not loaded a group holds no document.
NoDoc == [f \in {} |-> NullV]

\* The type a field has established: that of its current value, or of its
\* default when it holds none.  null carries no type (main() itself assigns
\* both an integer and None to user.device_key_override).
EstablishedType(cur, def) == IF TypeOf(cur) # "null" THEN TypeOf(cur) ELSE TypeOf(def)

TypeConflict(cur, def, v) ==
    /\ TypeOf(v) # "null"
    /\ EstablishedType(cur, def) # "null"
    /\ TypeOf(v) # EstablishedType(cur, def)

\* setattr(group, key_str, val) on a loaded group: the error it raises, or "".
SetAttrError(doc, g, k, v) ==
    IF k \notin GroupFields(g) THEN "NotFoundError"
    ELSE IF TypeConflict(doc[k], Default(g, k), v) THEN "TypeMismatchError"
    ELSE ""

\* group.unset(key_str): the error it raises, or "".
UnsetError(g, k) == IF k \in GroupFields(g) THEN "" ELSE "NotFoundError"

\* commit(): the dirty fields of the group, as one document update.
CommitDoc(doc, dirty) == [f \in dirty |-> doc[f]]

\* The persisted document after the update.
ApplyUpdate(stored, upd) ==
    [f \in DOMAIN stored |-> IF f \in DOMAIN upd THEN upd[f] ELSE stored[f]]

\* ---------------------------------------------------------------- the state
VARIABLES
    db,        \* persisted settings documents, one per settings group
    hostDb,    \* persisted host documents, one per host id (node)
    events,    \* the audit collection of Events (their types, in order)
    colls,     \* capped collections: "logs", "log_entries", "messages"
    clock,     \* wall clock, seconds (time.time() is positive)
    appended,  \* documents appended by the servers so far (their ids)
    started,   \* commands started so far
    proc       \* per node: the command process running there

vars == <<db, hostDb, events, colls, clock, appended, started, proc>>

CollNames == {"logs", "log_entries", "messages"}

\* A collection that does not exist (dropped and not recreated).
Dropped == [exists |-> FALSE, max |-> 0, size |-> 0, docs |-> <<>>]

Capped(max, size) == [exists |-> TRUE, max |-> max, size |-> size, docs |-> <<>>]

\* The log collections exist from an earlier start of the server, capped at
\* the default limit.
InitialLogMax == Default("app", "log_limit").n

IdleProc ==
    [pc |-> "idle", args |-> <<>>, grp |-> "", key |-> "", val |-> NullV,
     cache |-> NoDoc, changed |-> {}, todo |-> <<>>, trace |-> <<>>,
     out |-> <<>>, exit |-> -1, err |-> "", prefix |-> "UNBOUND", invoked |-> 0]
\* (invoked: the wall-clock second at which a device-key command was started)

Init ==
    /\ db = [g \in SettingsGroups |-> DefaultDoc(g)]
    /\ hostDb = [n \in Node |-> DefaultDoc(HostGroup)]
    /\ events = <<>>
    /\ colls = [c \in CollNames |->
                  IF c = "messages" THEN Capped(MsgMax, MsgSize)
                  ELSE IF c = "logs" THEN Capped(InitialLogMax, InitialLogMax * LogDocBytes)
                  ELSE Capped(InitialLogMax, InitialLogMax * LogEntryDocBytes)]
    /\ clock = 1
    /\ appended = 0
    /\ started = 0
    /\ proc = [n \in Node |-> IdleProc]

\* ------------------------------------------------------------ process steps
\* (mutant) the exception is swallowed and the command reports success.
Raise_ReportsSuccess(r, e) ==
    [r EXCEPT !.pc = "done", !.err = e, !.exit = 0, !.todo = <<>>,
              !.out = Append(r.out, <<"Successfully updated configuration">>)]

\* An exception nothing in main() catches: the traceback is printed on
\* stderr, the process ends with status 1 and prints nothing more.
Raise(r, e) == [r EXCEPT !.pc = "done", !.err = e, !.exit = 1, !.todo = <<>>]

\* The process moves to the next statement of its branch of main().
Advance(r) == [r EXCEPT !.pc = Head(r.todo), !.todo = Tail(r.todo)]

\* The statements of a branch that follow its first one.
Begin(r, steps) == [r EXCEPT !.pc = Head(steps), !.todo = Tail(steps)]

Traced(r, entry) == [r EXCEPT !.trace = Append(r.trace, entry)]

\* The document a process on node n loads for group g.
\* (mutant) no branch for 'host': that name resolves to a fresh group that
\* holds the defaults.
LoadIn_NoHostBranch(sdocs, hdocs, n, g) ==
    IF g = HostGroup THEN DefaultDoc(HostGroup) ELSE sdocs[g]

LoadIn(sdocs, hdocs, n, g) == IF g = HostGroup THEN hdocs[n] ELSE sdocs[g]

Load(n, g) == LoadIn(db, hostDb, n, g)

\* capped-collection insert: the oldest document leaves when the collection is
\* full; a collection that does not exist has no capacity.
Insert(coll, doc) ==
    IF ~coll.exists THEN coll
    ELSE IF Len(coll.docs) >= coll.max
      THEN [coll EXCEPT !.docs = Append(Tail(coll.docs), doc)]
      ELSE [coll EXCEPT !.docs = Append(coll.docs, doc)]

\* (mutant) the host branch announces the change before it commits it.
SetSteps_AnnounceFirst(g) ==
    IF g = HostGroup THEN <<"event", "publish", "commit", "print">>
    ELSE <<"commit", "print">>

\* (mutant) the value is stored in the group without setattr's type check.
ResolveSet_Unchecked(n, args) ==
    IF Len(args) # 3 THEN [err |-> "ValueError: Invalid arguments", grp |-> "", key |-> "", val |-> NullV]
    ELSE LET parts == Split(args[2]) IN
      IF Len(parts) # 2 THEN [err |-> "ValueError: unpack", grp |-> "", key |-> "", val |-> NullV]
      ELSE LET g == parts[1]
               k == parts[2]
               v == ParseValue(args[3])
           IN IF (g # HostGroup /\ g \notin SettingsGroups) \/ k \notin GroupFields(g)
                THEN [err |-> "NotFoundError", grp |-> g, key |-> k, val |-> NullV]
              ELSE [err |-> "", grp |-> g, key |-> k, val |-> v]

\* (mutant) every field of the group is assigned, so every field is dirty.
SetAssign_AllDirty(doc, k, v) == [doc |-> [doc EXCEPT ![k] = v], dirty |-> DOMAIN doc]

\* ---- set
\* if group_str == 'host': commit, Event, publish   else: settings.commit()
SetSteps(g) ==
    IF g = HostGroup THEN <<"commit", "event", "publish", "print">>
    ELSE <<"commit", "print">>

\* Lines 172-188: argument count, split and unpack, group lookup, value
\* parsing, setattr.  The error raised (or ""), and what was resolved.
ResolveSet(n, args) ==
    IF Len(args) # 3 THEN [err |-> "ValueError: Invalid arguments", grp |-> "", key |-> "", val |-> NullV]
    ELSE LET parts == Split(args[2]) IN
      IF Len(parts) # 2 THEN [err |-> "ValueError: unpack", grp |-> "", key |-> "", val |-> NullV]
      ELSE LET g == parts[1]
               k == parts[2]
               v == ParseValue(args[3])
           IN IF g # HostGroup /\ g \notin SettingsGroups
                THEN [err |-> "NotFoundError", grp |-> g, key |-> k, val |-> NullV]
              ELSE [err |-> SetAttrError(Load(n, g), g, k, v), grp |-> g, key |-> k, val |-> v]

\* Line 188, setattr(group, key_str, val): the one field main() assigns, and
\* with it the one field it makes dirty.
SetAssign(doc, k, v) == [doc |-> [doc EXCEPT ![k] = v], dirty |-> {k}]

SetBegin(n, args) ==
    /\ proc[n].pc = "idle"
    /\ started < MaxCmds
    /\ started' = started + 1
    /\ LET o == ResolveSet(n, args)
           r == [IdleProc EXCEPT !.args = args, !.grp = o.grp, !.key = o.key, !.val = o.val]
       IN proc' = [proc EXCEPT ![n] =
            IF o.err # "" THEN Raise(r, o.err)
            ELSE Begin([r EXCEPT !.cache = SetAssign(Load(n, o.grp), o.key, o.val).doc,
                                 !.changed = SetAssign(Load(n, o.grp), o.key, o.val).dirty],
                       SetSteps(o.grp))]
    /\ UNCHANGED <<db, hostDb, events, colls, clock, appended>>

\* ---- unset
\* Lines 212-219: no branch for 'host': the group is always looked up as an
\* attribute of settings.
ResolveUnset(args) ==
    IF Len(args) # 2 THEN [err |-> "ValueError: Invalid arguments", grp |-> "", key |-> ""]
    ELSE LET parts == Split(args[2]) IN
      IF Len(parts) # 2 THEN [err |-> "ValueError: unpack", grp |-> "", key |-> ""]
      ELSE IF parts[1] \notin SettingsGroups
        THEN [err |-> "NotFoundError", grp |-> parts[1], key |-> parts[2]]
      ELSE [err |-> UnsetError(parts[1], parts[2]), grp |-> parts[1], key |-> parts[2]]

UnsetBegin(n, args) ==
    /\ proc[n].pc = "idle"
    /\ started < MaxCmds
    /\ started' = started + 1
    /\ LET o == ResolveUnset(args)
           r == [IdleProc EXCEPT !.args = args, !.grp = o.grp, !.key = o.key]
       IN proc' = [proc EXCEPT ![n] =
            IF o.err # "" THEN Raise(r, o.err)
            ELSE Begin([r EXCEPT !.cache = [Load(n, o.grp) EXCEPT ![o.key] = Default(o.grp, o.key)],
                                 !.changed = {o.key}],
                       <<"commit", "print">>)]
    /\ UNCHANGED <<db, hostDb, events, colls, clock, appended>>

\* ---- get
FieldOrder(g) ==
    CASE g = "app" -> <<"log_limit", "log_entry_limit">>
      [] g = "user" -> <<"device_key_override">>
      [] g = HostGroup -> <<"mongodb_uri">>
      [] OTHER -> <<>>

ValueLine(g, k, v) == <<g, k, JsonDumps(v)>>

\* Lines 138-163: what `get` prints on node n (the error it raises, or ""),
\* given the persisted settings and host documents.
GetResultIn(sdocs, hdocs, n, args) ==
    IF Len(args) # 2 THEN [err |-> "ValueError: Invalid arguments", out |-> <<>>]
    ELSE LET split == Split(args[2])
             g == split[1]
             k == IF Len(split) > 1 THEN split[2] ELSE ""
         IN IF g # HostGroup /\ g \notin SettingsGroups
              THEN [err |-> "NotFoundError", out |-> <<>>]
            ELSE IF k # ""
              THEN IF k \in GroupFields(g)
                     THEN [err |-> "", out |-> <<ValueLine(g, k, LoadIn(sdocs, hdocs, n, g)[k])>>]
                     ELSE [err |-> "NotFoundError", out |-> <<>>]
            ELSE [err |-> "",
                  out |-> [i \in 1..Len(FieldOrder(g)) |->
                             ValueLine(g, FieldOrder(g)[i],
                                       LoadIn(sdocs, hdocs, n, g)[FieldOrder(g)[i]])]]

GetResult(n, args) == GetResultIn(db, hostDb, n, args)

GetCmd(n, args) ==
    /\ proc[n].pc = "idle"
    /\ started < MaxCmds
    /\ started' = started + 1
    /\ LET o == GetResult(n, args)
           r == [IdleProc EXCEPT !.args = args]
       IN proc' = [proc EXCEPT ![n] =
            IF o.err # "" THEN Raise(r, o.err)
            ELSE [r EXCEPT !.pc = "done", !.out = o.out, !.exit = 0]]
    /\ UNCHANGED <<db, hostDb, events, colls, clock, appended>>

\* ---- the database steps of set, unset and the device-key commands
\* settings.local.host.commit() / settings.commit(); up = FALSE: the database
\* is unavailable and the call raises.
Commit(n, up) ==
    /\ proc[n].pc = "commit"
    /\ LET r == proc[n]
           upd == CommitDoc(r.cache, r.changed)
       IN /\ proc' = [proc EXCEPT ![n] =
                IF up THEN Advance(Traced([r EXCEPT !.changed = {}],
                                          [op |-> "commit", grp |-> r.grp, doc |-> upd]))
                ELSE Raise(r, "StorageError")]
          /\ db' = IF up /\ r.grp # HostGroup
                     THEN [db EXCEPT ![r.grp] = ApplyUpdate(db[r.grp], upd)] ELSE db
          /\ hostDb' = IF up /\ r.grp = HostGroup
                     THEN [hostDb EXCEPT ![n] = ApplyUpdate(hostDb[n], upd)] ELSE hostDb
    /\ UNCHANGED <<events, colls, clock, appended, started>>

\* event.Event(type=HOSTS_UPDATED)
EmitEvent(n, up) ==
    /\ proc[n].pc = "event"
    /\ proc' = [proc EXCEPT ![n] =
          IF up THEN Advance(Traced(proc[n], [op |-> "event", type |-> "HOSTS_UPDATED"]))
          ELSE Raise(proc[n], "StorageError")]
    /\ events' = IF up THEN Append(events, "HOSTS_UPDATED") ELSE events
    /\ UNCHANGED <<db, hostDb, colls, clock, appended, started>>

\* messenger.publish('hosts', 'updated')
Publish(n, up) ==
    /\ proc[n].pc = "publish"
    /\ proc' = [proc EXCEPT ![n] =
          IF up THEN Advance(Traced(proc[n],
                       [op |-> "publish", channel |-> "hosts", msg |-> "updated"]))
          ELSE Raise(proc[n], "StorageError")]
    /\ colls' = IF up THEN [colls EXCEPT !["messages"] = Insert(@, <<"hosts", "updated">>)]
                ELSE colls
    /\ UNCHANGED <<db, hostDb, events, clock, appended, started>>

\* The closing prints of a branch, by command.
ClosingLines(r) ==
    CASE r.args[1] \in {"set", "unset"} ->
           <<ValueLine(r.grp, r.key, r.cache[r.key]), <<"Successfully updated configuration">>>>
      [] r.args[1] = "override-device-key" ->
           <<<<"Device registration key override active for 8 hours">>>>
      [] r.args[1] = "require-device-key" ->
           <<<<"Device registration key override deactivated">>>>
      [] r.args[1] = "clear-logs" -> <<<<"Log entries cleared">>>>
      [] r.args[1] = "clear-message-cache" -> <<<<"Message cache cleared">>>>

\* time.sleep(.2); print(...); sys.exit(0)
PrintAndExit(n) ==
    /\ proc[n].pc = "print"
    /\ proc' = [proc EXCEPT ![n] =
          [Traced(proc[n], [op |-> "print"]) EXCEPT
              !.pc = "done", !.exit = 0, !.out = proc[n].out \o ClosingLines(proc[n])]]
    /\ UNCHANGED <<db, hostDb, events, colls, clock, appended, started>>

\* The process is gone; the node may run the next command.
Reap(n) ==
    /\ proc[n].pc = "done"
    /\ proc' = [proc EXCEPT ![n] = IdleProc]
    /\ UNCHANGED <<db, hostDb, events, colls, clock, appended, started>>

\* ---- override-device-key / require-device-key
\* (mutant) the expiry time is stored instead of the time of the call.
OverrideStamp_Expiry(t) == t + EightHours

\* int(time.time()) at wall-clock second t
OverrideStamp(t) == t

\* Lines 235-237: settings.user.device_key_override = int(time.time())
OverrideBegin(n) ==
    /\ proc[n].pc = "idle"
    /\ started < MaxCmds
    /\ started' = started + 1
    /\ LET v == IntV(OverrideStamp(clock))
           r == [IdleProc EXCEPT !.args = <<"override-device-key">>, !.invoked = clock,
                                 !.grp = "user", !.key = "device_key_override", !.val = v]
           e == SetAttrError(Load(n, "user"), "user", "device_key_override", v)
       IN proc' = [proc EXCEPT ![n] =
            IF e # "" THEN Raise(r, e)
            ELSE Begin([r EXCEPT !.cache = SetAssign(Load(n, "user"), r.key, v).doc,
                                 !.changed = SetAssign(Load(n, "user"), r.key, v).dirty],
                       <<"commit", "print">>)]
    /\ UNCHANGED <<db, hostDb, events, colls, clock, appended>>

\* Lines 249-251: settings.user.device_key_override = None
RequireBegin(n) ==
    /\ proc[n].pc = "idle"
    /\ started < MaxCmds
    /\ started' = started + 1
    /\ LET r == [IdleProc EXCEPT !.args = <<"require-device-key">>, !.invoked = clock,
                                 !.grp = "user", !.key = "device_key_override", !.val = NullV]
           e == SetAttrError(Load(n, "user"), "user", "device_key_override", NullV)
       IN proc' = [proc EXCEPT ![n] =
            IF e # "" THEN Raise(r, e)
            ELSE Begin([r EXCEPT !.cache = SetAssign(Load(n, "user"), r.key, NullV).doc,
                                 !.changed = SetAssign(Load(n, "user"), r.key, NullV).dirty],
                       <<"commit", "print">>)]
    /\ UNCHANGED <<db, hostDb, events, colls, clock, appended>>

\* A second passes.
Tick ==
    /\ clock <= MaxClock
    /\ clock' = clock + 1
    /\ UNCHANGED <<db, hostDb, events, colls, appended, started, proc>>

\* ---- clear-logs
\* (mutant) "logs" is capped with the limit of "log_entries".
LogsOptions_EntryLimit(app) ==
    [max |-> app["log_entry_limit"].n, size |-> app["log_entry_limit"].n * LogDocBytes]

\* capped=True, size=log_limit * 1024, max=log_limit
LogsOptions(app) ==
    [max |-> app["log_limit"].n, size |-> app["log_limit"].n * LogDocBytes]

\* capped=True, size=log_entry_limit * 512, max=log_entry_limit
LogEntriesOptions(app) ==
    [max |-> app["log_entry_limit"].n, size |-> app["log_entry_limit"].n * LogEntryDocBytes]

\* Lines 519-521: setup_db(); mongo.get_collection('logs').drop()
ClearLogsBegin(n) ==
    /\ proc[n].pc = "idle"
    /\ started < MaxCmds
    /\ started' = started + 1
    /\ proc' = [proc EXCEPT ![n] =
          Begin(Traced([IdleProc EXCEPT !.args = <<"clear-logs">>],
                       [op |-> "drop", coll |-> "logs"]),
                <<"drop_log_entries", "read_limits", "create_logs",
                  "create_log_entries", "print">>)]
    /\ colls' = [colls EXCEPT !["logs"] = Dropped]
    /\ UNCHANGED <<db, hostDb, events, clock, appended>>

\* Line 522: mongo.get_collection('log_entries').drop()
DropLogEntries(n) ==
    /\ proc[n].pc = "drop_log_entries"
    /\ proc' = [proc EXCEPT ![n] =
          Advance(Traced(proc[n], [op |-> "drop", coll |-> "log_entries"]))]
    /\ colls' = [colls EXCEPT !["log_entries"] = Dropped]
    /\ UNCHANGED <<db, hostDb, events, clock, appended, started>>

\* Lines 524-526: prefix is bound; the first access to settings.app loads the
\* app document.
ReadLimits(n) ==
    /\ proc[n].pc = "read_limits"
    /\ proc' = [proc EXCEPT ![n] =
          Advance([proc[n] EXCEPT !.prefix = "", !.grp = "app", !.cache = Load(n, "app")])]
    /\ UNCHANGED <<db, hostDb, events, colls, clock, appended, started>>

\* create_collection(name, capped=True, size=..., max=...): a limit that is
\* not a number cannot be multiplied (TypeError); a collection that exists
\* cannot be created again.
CreateCapped(n, step, c, limit, opts) ==
    /\ proc[n].pc = step
    /\ LET bad == IF TypeOf(limit) # "int" THEN "TypeError"
                  ELSE IF colls[c].exists THEN "StorageError" ELSE ""
       IN /\ proc' = [proc EXCEPT ![n] =
                IF bad # "" THEN Raise(proc[n], bad)
                ELSE Advance(Traced(proc[n],
                       [op |-> "create", coll |-> c, max |-> opts.max, size |-> opts.size]))]
          /\ colls' = IF bad # "" THEN colls
                      ELSE [colls EXCEPT ![c] = Capped(opts.max, opts.size)]
    /\ UNCHANGED <<db, hostDb, events, clock, appended, started>>

\* Lines 526-528
CreateLogs(n) ==
    CreateCapped(n, "create_logs", "logs", proc[n].cache["log_limit"],
                 LogsOptions(proc[n].cache))

\* Lines 530-532
CreateLogEntries(n) ==
    CreateCapped(n, "create_log_entries", "log_entries", proc[n].cache["log_entry_limit"],
                 LogEntriesOptions(proc[n].cache))

\* A running server appends a document to a capped collection.
ServerAppend(c) ==
    /\ appended < MaxAppends
    /\ appended' = appended + 1
    /\ colls' = [colls EXCEPT ![c] = Insert(@, appended + 1)]
    /\ UNCHANGED <<db, hostDb, events, clock, started, proc>>

\* ---- clear-message-cache
\* Lines 346-348: setup_db(); print('Clearing message cache...')
ClearMessagesBegin(n) ==
    /\ proc[n].pc = "idle"
    /\ started < MaxCmds
    /\ started' = started + 1
    /\ proc' = [proc EXCEPT ![n] =
          Begin([IdleProc EXCEPT !.args = <<"clear-message-cache">>,
                                 !.out = <<<<"Clearing message cache...">>>>],
                <<"drop_messages", "create_messages", "print">>)]
    /\ UNCHANGED <<db, hostDb, events, colls, clock, appended>>

\* Line 350: mongo.get_collection('messages').drop()
DropMessages(n) ==
    /\ proc[n].pc = "drop_messages"
    /\ proc' = [proc EXCEPT ![n] =
          Advance(Traced(proc[n], [op |-> "drop", coll |-> "messages"]))]
    /\ colls' = [colls EXCEPT !["messages"] = Dropped]
    /\ UNCHANGED <<db, hostDb, events, clock, appended, started>>

\* Lines 351-353: the argument prefix + 'messages' is evaluated first; prefix
\* is a local of main() that only the clear-logs branch assigns.
CreateMessages(n) ==
    /\ proc[n].pc = "create_messages"
    /\ LET bad == IF proc[n].prefix = "UNBOUND" THEN "UnboundLocalError"
                  ELSE IF colls["messages"].exists THEN "StorageError" ELSE ""
       IN /\ proc' = [proc EXCEPT ![n] =
                IF bad # "" THEN Raise(proc[n], bad)
                ELSE Advance(Traced(proc[n],
                       [op |-> "create", coll |-> "messages", max |-> MsgMax, size |-> MsgSize]))]
          /\ colls' = IF bad # "" THEN colls
                      ELSE [colls EXCEPT !["messages"] = Capped(MsgMax, MsgSize)]
    /\ UNCHANGED <<db, hostDb, events, clock, appended, started>>

\* ------------------------------------------------ set / get / unset commands
Dotted(g, k) == <<g, ".", k>>

GoodAddrs == {Dotted("app", "log_limit"), Dotted("app", "log_entry_limit"),
              Dotted("user", "device_key_override"), Dotted(HostGroup, "mongodb_uri")}

BadAddrs == {<<"app">>, <<"app", ".", "log_limit", ".", "x">>, <<".", "log_limit">>,
             <<"app", ".">>, <<"nogroup", ".", "log_limit">>, <<"app", ".", "nofield">>}

RawArgs == {"1", "a", "\"a\"", "null"}

SetArgs == {<<"set", a, v>> : a \in GoodAddrs, v \in RawArgs}
             \cup {<<"set", a, "1">> : a \in BadAddrs} \cup {<<"set", Dotted("app", "log_limit")>>}

UnsetArgs == {<<"unset", a>> : a \in GoodAddrs \cup BadAddrs} \cup {<<"unset">>}

GetArgs == {<<"get", a>> : a \in GoodAddrs \cup {<<"app">>, <<"nogroup">>}}

Next ==
    \E n \in Node :
        \/ \E args \in SetArgs : SetBegin(n, args)
        \/ \E args \in UnsetArgs : UnsetBegin(n, args)
        \/ \E args \in GetArgs : GetCmd(n, args)
        \/ \E up \in BOOLEAN : Commit(n, up)
        \/ \E up \in BOOLEAN : EmitEvent(n, up)
        \/ \E up \in BOOLEAN : Publish(n, up)
        \/ PrintAndExit(n)
        \/ Reap(n)

Spec == Init /\ [][Next]_vars

\* The device-key commands, with the clock running.
NextDevice ==
    \/ Tick
    \/ \E n \in Node :
        \/ OverrideBegin(n)
        \/ RequireBegin(n)
        \/ \E up \in BOOLEAN : Commit(n, up)
        \/ PrintAndExit(n)
        \/ Reap(n)

SpecDevice == Init /\ [][NextDevice]_vars

\* clear-logs, with servers logging and the limits being changed meanwhile.
LimitArgs == {<<"set", Dotted("app", f), v>> :
                 f \in {"log_limit", "log_entry_limit"}, v \in {"1", "null"}}

NextLogs ==
    \/ \E c \in {"logs", "log_entries"} : ServerAppend(c)
    \/ \E n \in Node :
        \/ \E args \in LimitArgs : SetBegin(n, args)
        \/ \E up \in BOOLEAN : Commit(n, up)
        \/ ClearLogsBegin(n)
        \/ DropLogEntries(n)
        \/ ReadLimits(n)
        \/ CreateLogs(n)
        \/ CreateLogEntries(n)
        \/ PrintAndExit(n)
        \/ Reap(n)

SpecLogs == Init /\ [][NextLogs]_vars

\* clear-message-cache, with servers publishing meanwhile.
NextMessages ==
    \/ ServerAppend("messages")
    \/ \E n \in Node :
        \/ SetBegin(n, <<"set", Dotted(HostGroup, "mongodb_uri"), "a">>)
        \/ \E up \in BOOLEAN : Commit(n, up)
        \/ \E up \in BOOLEAN : EmitEvent(n, up)
        \/ \E up \in BOOLEAN : Publish(n, up)
        \/ ClearMessagesBegin(n)
        \/ DropMessages(n)
        \/ CreateMessages(n)
        \/ PrintAndExit(n)
        \/ Reap(n)

SpecMessages == Init /\ [][NextMessages]_vars

\* ------------------------------------------------------------------ claims
IsDone(n, c) == proc[n].pc = "done" /\ proc[n].args[1] = c

\* The operations a finished or running process has completed, in order.
Ops(r) == [i \in 1..Len(r.trace) |-> r.trace[i].op]

SuccessLine == <<"Successfully updated configuration">>

Printed(r, line) == \E i \in 1..Len(r.out) : r.out[i] = line

\* What `get <g>.<k>` prints on node n in the current state.
GetNow(n, g, k) == GetResult(n, <<"get", Dotted(g, k)>>).out

\* ... and in the state a step leads to.
GetNext(n, g, k) == GetResultIn(db', hostDb', n, <<"get", Dotted(g, k)>>).out

\* C1: a successful `set host.<field> <value>` has committed the new value
\* to the host document, then appended exactly one "hosts updated" Event,
\* then published exactly once ("hosts", "updated"), then printed its
\* confirmation; the host document holds the value from the commit on.
C1_HostSetCommitEventPublishPrint ==
    \A n \in Node :
      LET r == proc[n] IN
        /\ (IsDone(n, "set") /\ r.grp = HostGroup /\ r.exit = 0) =>
              /\ r.trace = <<[op |-> "commit", grp |-> HostGroup, doc |-> (r.key :> r.val)],
                             [op |-> "event", type |-> "HOSTS_UPDATED"],
                             [op |-> "publish", channel |-> "hosts", msg |-> "updated"],
                             [op |-> "print"]>>
              /\ Printed(r, SuccessLine)
        /\ (r.pc \in {"event", "publish", "print"} /\ r.grp = HostGroup) =>
              /\ hostDb[n][r.key] = r.val
              /\ r.trace[1].op = "commit"

C1_Witness ==
    \E n \in Node : IsDone(n, "set") /\ proc[n].grp = HostGroup /\ proc[n].exit = 0
                    /\ Len(events) = 1 /\ Len(colls["messages"].docs) = 1

\* C2 (as claimed): once an `unset <group>.<field>` on a field of a config
\* group, the host group included, has run (committed, or ended without a
\* storage failure), `get` of that field prints the field's default.
UnsetSettles(n) ==
    /\ proc'[n].pc # "idle"
    /\ proc'[n].args[1] = "unset"
    /\ Len(proc'[n].args) = 2
    /\ proc'[n].args[2] \in GoodAddrs
    /\ proc'[n].err # "StorageError"
    /\ \/ proc[n].pc = "idle"   /\ proc'[n].pc = "done"
       \/ proc[n].pc = "commit" /\ proc'[n].pc = "print"

\* C2: the step that settles `unset <group>.<field>` (host group included)
\* leaves a state in which `get <group>.<field>` prints the default.
C2_UnsetThenGetIsDefault ==
    [][\A n \in Node :
         UnsetSettles(n) =>
           LET g == Split(proc'[n].args[2])[1]
               k == Split(proc'[n].args[2])[2]
           IN GetNext(n, g, k) = <<ValueLine(g, k, Default(g, k))>>]_vars

\* C3: the step that completes the commit of `set <group>.<field> v` leaves
\* the database such that a store reloaded on node q prints v for `get`.
SetCommits(n) ==
    /\ proc[n].pc = "commit"
    /\ proc[n].args[1] = "set"
    /\ proc'[n].pc \notin {"commit", "done"}

ReloadedGetIs(q, r) == GetNext(q, r.grp, r.key) = <<ValueLine(r.grp, r.key, r.val)>>

SetStarts(n) ==
    /\ proc[n].pc = "idle" /\ proc'[n].pc # "idle"
    /\ proc'[n].args[1] = "set" /\ Len(proc'[n].args) = 3

ConflictingSet(n) ==
    LET a == proc'[n].args[2]
        g == Split(a)[1]
        k == Split(a)[2]
    IN /\ a \in GoodAddrs
       /\ TypeConflict(Load(n, g)[k], Default(g, k), ParseValue(proc'[n].args[3]))

\* C4: a type-conflicting `set` fails with TypeMismatchError and only such
\* a set does; the failing step leaves every persisted value, the Events and
\* the messages unchanged, and the command has committed nothing.
C4_TypeMismatchRejected ==
    [][\A n \in Node :
         /\ (SetStarts(n) /\ ConflictingSet(n)) =>
               /\ proc'[n].pc = "done" /\ proc'[n].err = "TypeMismatchError"
               /\ proc'[n].exit = 1
         /\ (SetStarts(n) /\ proc'[n].err = "TypeMismatchError") =>
               /\ ConflictingSet(n)
               /\ proc'[n].trace = <<>> /\ proc'[n].out = <<>> /\ proc'[n].todo = <<>>
               /\ UNCHANGED <<db, hostDb, events, colls>>]_vars

C4_Witness ==
    \E n \in Node : /\ IsDone(n, "set") /\ proc[n].err = "TypeMismatchError"
                    /\ proc[n].args[2] = Dotted("app", "log_limit")
                    /\ proc[n].args[3] = "a"
                    /\ db["app"]["log_limit"] = IntV(1)

\* C5 (as claimed): `set` and `unset` reject an address that does not split
\* into exactly two non-empty components with an address error, and a
\* well-formed address of an unknown group or field as not found; neither
\* has committed or broadcast anything.
WellFormed(a) == Len(Split(a)) = 2 /\ Split(a)[1] # "" /\ Split(a)[2] # ""

KnownField(a) ==
    /\ Split(a)[1] \in SettingsGroups \cup {HostGroup}
    /\ Split(a)[2] \in GroupFields(Split(a)[1])

\* C5: a finished `set` or `unset` with a malformed address ended with the
\* address error, one with an unknown group or field with not found, and
\* either way without a commit, Event or publish.
C5_AddressErrors ==
    \A n \in Node :
      LET r == proc[n] IN
        (/\ r.pc = "done"
         /\ \/ r.args[1] = "set" /\ Len(r.args) = 3
            \/ r.args[1] = "unset" /\ Len(r.args) = 2) =>
          /\ ~WellFormed(r.args[2]) => (r.err = "ValueError: unpack" /\ r.trace = <<>>)
          /\ (WellFormed(r.args[2]) /\ ~KnownField(r.args[2])) =>
                (r.err = "NotFoundError" /\ r.trace = <<>>)

\* C7: two nodes each ran one `set`, on different fields of the same settings
\* group, in any interleaving and both to the end: the document holds both.
C7_DisjointFieldsBothPersist ==
    (/\ started = 2
     /\ \A n \in Node : IsDone(n, "set") /\ proc[n].exit = 0
     /\ proc[1].grp = proc[2].grp
     /\ proc[1].grp \in SettingsGroups
     /\ proc[1].key # proc[2].key) =>
       \A n \in Node : db[proc[n].grp][proc[n].key] = proc[n].val

C7_Witness ==
    /\ started = 2
    /\ \A n \in Node : IsDone(n, "set") /\ proc[n].exit = 0
    /\ proc[1].grp = "app" /\ proc[2].grp = "app"
    /\ proc[1].key # proc[2].key
    /\ \A n \in Node : proc[n].val # Default("app", proc[n].key)
    /\ \A n \in Node : db["app"][proc[n].key] = proc[n].val

\* C8: `set` prints its confirmation and exits 0 only if the commit and, for
\* the host group, the Event append and the publish all completed; a failed
\* step leaves no confirmation and a non-zero exit code.
C8_NoPartialSuccess ==
    \A n \in Node :
      LET r == proc[n] IN
        (r.pc # "idle" /\ r.args[1] = "set") =>
          /\ (Printed(r, SuccessLine) \/ r.exit = 0) =>
                /\ r.pc = "done" /\ r.exit = 0 /\ r.err = "" /\ Printed(r, SuccessLine)
                /\ \E i \in 1..Len(r.trace) : r.trace[i].op = "commit"
                /\ r.grp = HostGroup =>
                      /\ \E i \in 1..Len(r.trace) : r.trace[i].op = "event"
                      /\ \E i \in 1..Len(r.trace) : r.trace[i].op = "publish"
          /\ r.err # "" => (r.pc = "done" /\ r.exit # 0 /\ r.out = <<>>)
          /\ r.pc = "done" => (r.err # "" \/ r.exit = 0)

C8_Witness ==
    \E n \in Node : /\ IsDone(n, "set") /\ proc[n].err = "StorageError"
                    /\ Ops(proc[n]) = <<"commit", "event">>
                    /\ proc[n].exit = 1 /\ proc[n].out = <<>>

\* C6 (as claimed): in every reachable state "logs" holds at most the
\* configured app.log_limit documents and "log_entries" at most the
\* configured app.log_entry_limit.
WithinConfigured(c, f) ==
    TypeOf(db["app"][f]) = "int" => Len(colls[c].docs) <= db["app"][f].n

\* C6 (as claimed): both log collections stay within the configured limits.
C6_WithinConfiguredLimits ==
    /\ WithinConfigured("logs", "log_limit")
    /\ WithinConfigured("log_entries", "log_entry_limit")

\* C6 (amended): a log collection never holds more documents than the max
\* it was created with; a clear-logs that completes has dropped both
\* collections and created each one empty, capped at the limit its process
\* read from the app settings after the drops (size = limit * 1024, or
\* * 512 for log_entries); an append to a full collection evicts the oldest.
LogColls == {"logs", "log_entries"}

C6_State ==
    /\ \A c \in LogColls : colls[c].exists => Len(colls[c].docs) <= colls[c].max
    /\ \A n \in Node :
         (IsDone(n, "clear-logs") /\ proc[n].exit = 0) =>
           LET lim == proc[n].cache["log_limit"].n
               elim == proc[n].cache["log_entry_limit"].n
           IN proc[n].trace =
                <<[op |-> "drop", coll |-> "logs"],
                  [op |-> "drop", coll |-> "log_entries"],
                  [op |-> "create", coll |-> "logs", max |-> lim, size |-> lim * 1024],
                  [op |-> "create", coll |-> "log_entries", max |-> elim, size |-> elim * 512],
                  [op |-> "print"]>>

Created(n, step, c, f) ==
    (proc[n].pc = step /\ proc'[n].pc \notin {step, "done"}) =>
       colls'[c] = [exists |-> TRUE, max |-> proc[n].cache[f].n,
                    size |-> colls'[c].size, docs |-> <<>>]

C6_Step ==
    /\ \A n \in Node :
         /\ (proc[n].pc = "read_limits" /\ proc'[n].pc = "create_logs") =>
               proc'[n].cache = db["app"]
         /\ Created(n, "create_logs", "logs", "log_limit")
         /\ Created(n, "create_log_entries", "log_entries", "log_entry_limit")
    /\ \A c \in LogColls :
         (appended' = appended + 1 /\ colls'[c] # colls[c]) =>
            colls'[c].docs =
               IF Len(colls[c].docs) = colls[c].max
                 THEN Append(Tail(colls[c].docs), appended')
                 ELSE Append(colls[c].docs, appended')

\* C6 (amended): log collections stay within the max they were created
\* with, clear-logs recreates them at the limits its process read, and a
\* full collection evicts its oldest document on append.
C6_CappedAtCreationLimits == []C6_State /\ [][C6_Step]_vars

C6_Witness ==
    \E n \in Node :
      /\ IsDone(n, "clear-logs") /\ proc[n].exit = 0
      /\ db["app"]["log_limit"] = IntV(1)
      /\ colls["logs"].max = 1
      /\ colls["logs"].docs = <<appended>>
      /\ appended >= 2

\* C9 (as claimed): the commit of override-device-key stores the time of
\* invocation plus 8 hours; the commit of require-device-key stores null.
DeviceCommits(n) ==
    /\ proc[n].pc = "commit" /\ proc'[n].pc = "print"
    /\ proc[n].args[1] \in {"override-device-key", "require-device-key"}

StoredOverride == db'["user"]["device_key_override"]

\* C9 (as claimed): override stores invocation time + 8 hours, require null.
C9_OverrideStoresExpiry ==
    [][\A n \in Node :
         DeviceCommits(n) =>
           StoredOverride = IF proc[n].args[1] = "override-device-key"
                              THEN IntV(proc[n].invoked + EightHours) ELSE NullV]_vars

\* C9 (amended): the commit of override-device-key stores the time of
\* invocation itself, in whole seconds; the commit of require-device-key
\* stores null.
C9_OverrideStoresInvocationTime ==
    [][\A n \in Node :
         DeviceCommits(n) =>
           StoredOverride = IF proc[n].args[1] = "override-device-key"
                              THEN IntV(proc[n].invoked) ELSE NullV]_vars

C9_Witness ==
    \E n \in Node :
      /\ proc[n].pc = "print" /\ proc[n].args[1] = "override-device-key"
      /\ clock > proc[n].invoked
      /\ db["user"]["device_key_override"] = IntV(proc[n].invoked)

\* C10 (as claimed): a clear-message-cache that has dropped "messages" and
\* ended has recreated it capped (size 5000192, max 1000), printed
\* 'Message cache cleared' and exited 0.
C10_MessagesRecreated ==
    \A n \in Node :
      LET r == proc[n] IN
        (/\ IsDone(n, "clear-message-cache")
         /\ \E i \in 1..Len(r.trace) : r.trace[i] = [op |-> "drop", coll |-> "messages"]) =>
          /\ r.exit = 0
          /\ Printed(r, <<"Message cache cleared">>)
          /\ \E i \in 1..Len(r.trace) :
               r.trace[i] = [op |-> "create", coll |-> "messages",
                             max |-> MsgMax, size |-> MsgSize]

=============================================================================
